---- MODULE Spec2Model ----
(***************************************************************************)
(* MyUrls: the short-link lifecycle of src/main.go.                        *)
(*                                                                         *)
(* The state is the Redis keyspace (ShortLinkRecords, DedupIndexRecords    *)
(* and RenewalLocks, each a value with an optional expiration), the Redis  *)
(* clock, the package-level connection variable redisClient with the set   *)
(* of connections currently open, and one record of locals per request     *)
(* goroutine.  Every Redis command of the source is one step, so that the  *)
(* goroutines of concurrent requests interleave between commands the way   *)
(* the gin handlers do.                                                    *)
(***************************************************************************)
EXTENDS Integers, Sequences, FiniteSets, TLC

VARIABLES
    now,          \* the Redis server's clock, in seconds
    store,        \* the Redis keyspace: key -> [val, exp]
    req,          \* per goroutine: position (pc) and locals of its request
    redisClient,  \* the package-level variable redisClient (main.go:81)
    open,         \* the pooled connections that are open (not yet closed)
    hist          \* history of the run, read by the properties only

vars == <<now, store, req, redisClient, open, hist>>

----------------------------------------------------------------------------
(* Program constants.                                                      *)

letterBytes == "0123456789abcdefghijklmnopqrstuvwxyzABCDEFGHIJKLMNOPQRSTUVWXYZ"
minShortUrlLen == 1
maxShortUrlLen == 20
defaultRenewalDay == 1
secondsPerDay == 24 * 3600
defaultLockPrefix == "myurls:lock:"
defaultMd5Prefix == "myurls:md5:"

(* Bounds of the model.                                                    *)
MaxDays == 1      \* whole days the clock may advance
MaxSecs == 1      \* single seconds the clock may advance
MaxReqs == 4      \* requests served
RaceDays == 1     \* the same, with two requests at a time
RaceSecs == 1
RaceReqs == 3
FaultDays == 1    \* the same, with a store that may fail
FaultSecs == 1
FaultReqs == 2
KeysDays == 1     \* the same, with caller-chosen keys of any shape
KeysSecs == 1
KeysReqs == 3

NoExpire == 0 - 1 \* the reply of TTL for a key without expiration

----------------------------------------------------------------------------
(* Inputs.  The long URLs arrive base64-encoded in the form field longUrl. *)

FormX == "aHR0cDovL3g="
FormY == "aHR0cDovL3k="
UrlX == "http://x"
UrlY == "http://y"

(* base64.StdEncoding.DecodeString on the form values of the model.  The   *)
(* handler drops the error, so text that is not base64 decodes to "".      *)
DecodeString(s) ==
    CASE s = FormX -> UrlX
      [] s = FormY -> UrlY
      [] OTHER -> ""

(* hex.EncodeToString(md5.Sum(longUrl)) on the long URLs of the model.     *)
longUrlMD5(u) ==
    CASE u = UrlX -> "94831d84bdbc4feeb2ce9108660eada6"
      [] u = UrlY -> "84d6d94ddc7eb0c6c350811261133613"
      [] OTHER -> "d41d8cd98f00b204e9800998ecf8427e"

Md5Key(u) == defaultMd5Prefix \o longUrlMD5(u)
LockKey(k) == defaultLockPrefix \o k

(* generate(bits): the strings of length bits over the letters the model   *)
(* draws from letterBytes.                                                 *)
RECURSIVE generate(_, _)
generate(bits, letters) ==
    IF bits = 0 THEN {""}
    ELSE {s \o c : s \in generate(bits - 1, letters), c \in letters}

----------------------------------------------------------------------------
(* The Redis commands the program issues, on a keyspace s at time t.       *)

Exists(s, k) == k \in DOMAIN s

Put(s, k, r) == [x \in DOMAIN s \cup {k} |-> IF x = k THEN r ELSE s[x]]

Del(s, k) == [x \in DOMAIN s \ {k} |-> s[x]]

\* GET through redis.String: a missing key reads as "".
Get(s, k) == IF Exists(s, k) THEN s[k].val ELSE ""

\* SET stores the value and discards any expiration.
Set(s, k, v) == Put(s, k, [val |-> v, exp |-> NoExpire])

\* MSET k1 v1 k2 v2.
MSet(s, k1, v1, k2, v2) == Set(Set(s, k1, v1), k2, v2)

\* EXPIRE: nothing for a missing key, a delete for a timeout <= 0.
Expire(s, k, sec, t) ==
    IF ~Exists(s, k) THEN s
    ELSE IF sec <= 0 THEN Del(s, k)
    ELSE [s EXCEPT ![k].exp = t + sec]

\* TTL: -2 for a missing key, -1 for a key without expiration.
Ttl(s, k, t) ==
    IF ~Exists(s, k) THEN 0 - 2
    ELSE IF s[k].exp = NoExpire THEN NoExpire
    ELSE s[k].exp - t

\* The keys that survive until time t.
Purge(s, t) ==
    LET live == {k \in DOMAIN s : s[k].exp = NoExpire \/ s[k].exp > t}
    IN [k \in live |-> s[k]]

----------------------------------------------------------------------------
(* Connections.  redisPool.Get() hands out a connection; the goroutine p   *)
(* holds at most one per function it is in.                                *)

NoConn == <<0, "nil">>
Conn(p, f) == <<p, f>>

\* A command succeeds when the store answers and the connection is open.
Good(ok, c) == ok /\ c \in open

(* The locals of a request goroutine.                                      *)
Blank ==
    [pc |-> "idle",        \* position in the handler
     op |-> "",            \* "post" (POST /short) or "get" (GET /:shortKey)
     explicit |-> FALSE,   \* the form carried a shortKey
     longUrl |-> "",
     shortKey |-> "",
     shortUrlLen |-> 0,
     ttl |-> 0,            \* longToShort's ttl
     i |-> 0,              \* longToShort's retry counter
     existsKey |-> "",     \* longToShort's _existsKey
     lock |-> 0,           \* renew's lock
     rttl |-> 0,           \* renew's ttl
     d1 |-> NoConn,        \* connection of the deferred Close (outer function)
     d2 |-> NoConn,        \* connection of renew's deferred Close
     code |-> 0,           \* Response.Code, or the HTTP status of the redirect
     msg |-> "",           \* why a POST was refused
     ret |-> "",           \* the short key or the long URL answered
     err |-> FALSE,        \* some command of this request returned an error
     sent |-> 0]           \* commands issued after the first error

Init ==
    /\ now = 0
    /\ store = <<>>
    /\ req = [p \in {1, 2} |-> Blank]
    /\ redisClient = NoConn
    /\ open = {}
    /\ hist = [renewals |-> <<>>, born |-> <<>>, issued |-> <<>>, ever |-> {},
               served |-> 0, last |-> <<>>, pinned |-> {}]

\* The locals of p after a command that answered (good) or failed.
Sent(r, good) ==
    [r EXCEPT !.err = r.err \/ ~good,
              !.sent = IF r.err /\ r.sent < 1 THEN r.sent + 1 ELSE r.sent]

\* The request r answered: the locals of the functions it called are gone.
Answer(r, code, ret) ==
    [r EXCEPT !.pc = "idle", !.code = code, !.ret = ret, !.shortUrlLen = 0,
              !.ttl = 0, !.i = 0, !.lock = 0, !.rttl = 0, !.d1 = NoConn, !.d2 = NoConn]

\* The history after the ShortLinkRecord k was written by SET or MSET.
Written(h, k) ==
    [h EXCEPT !.born = IF k \in DOMAIN h.born THEN Del(h.born, k) ELSE h.born,
              !.ever = h.ever \cup {k},
              !.pinned = h.pinned \ {k}]

\* The history after a create set the TTL of ShortLinkRecord k to sec.
Born(h, s, k, sec) ==
    IF ~Exists(s, k) THEN h
    ELSE IF sec <= 0 THEN [h EXCEPT !.born = Del(h.born, k)]
    ELSE [h EXCEPT !.born = Put(h.born, k, [ttl |-> sec, renews |-> 0])]

----------------------------------------------------------------------------
(* POST /short (main.go:123-194).                                          *)

\* The handler up to the branch on shortKey: the checks of the form, the
\* base64 decoding, and -ttl days turned into seconds.
PostShort(p, form, shortKey, shortUrlLen, ttlDays) ==
    /\ req[p].pc = "idle"
    /\ hist' = [hist EXCEPT !.served = @ + 1]
    /\ LET r == [Blank EXCEPT !.op = "post",
                              !.explicit = (shortKey # ""),
                              !.shortKey = shortKey,
                              !.ttl = ttlDays * secondsPerDay]
       IN req' = [req EXCEPT ![p] =
            IF form = ""
            THEN [r EXCEPT !.msg = "EmptyLongUrl"]
            ELSE IF ~(shortUrlLen >= minShortUrlLen /\ shortUrlLen <= maxShortUrlLen)
            THEN [r EXCEPT !.msg = "InvalidLength"]
            ELSE [r EXCEPT !.longUrl = DecodeString(form),
                           !.shortUrlLen = shortUrlLen,
                           !.pc = IF shortKey # "" THEN "post_get" ELSE "l2s_pool"]]
    /\ UNCHANGED <<now, store, redisClient, open>>

\* PostGet without the comparison of main.go:172: every explicit key is
\* written.  C3 tells the two apart.
PostGet_NoConflict(p, ok) ==
    /\ req[p].pc = "post_get"
    /\ req' = [req EXCEPT ![p] = [Sent(req[p], ok) EXCEPT !.pc = "post_set"]]
    /\ open' = open \cup {Conn(p, "handler")}
    /\ UNCHANGED <<now, store, redisClient, hist>>

\* main.go:168-177: the handler's own connection (a local, never closed;
\* the connections one goroutine leaves open this way count as one),
\* the lookup of the explicit key, and the conflict answer.
PostGet(p, ok) ==
    /\ req[p].pc = "post_get"
    /\ LET r == req[p]
           exists == IF ok THEN Get(store, r.shortKey) ELSE ""
           conflict == exists # "" /\ exists # r.longUrl
       IN /\ req' = [req EXCEPT ![p] =
               IF conflict
               THEN [Sent(r, ok) EXCEPT !.pc = "idle", !.code = 0, !.msg = "KeyConflict"]
               ELSE [Sent(r, ok) EXCEPT !.pc = "post_set"]]
          /\ hist' = IF conflict THEN [hist EXCEPT !.last = <<>>] ELSE hist
    /\ open' = open \cup {Conn(p, "handler")}
    /\ UNCHANGED <<now, store, redisClient>>

\* main.go:180-193: the unconditional SET, and the answer.
PostSet(p, ok) ==
    /\ req[p].pc = "post_set"
    /\ LET r == req[p]
       IN /\ store' = IF ok THEN Set(store, r.shortKey, r.longUrl) ELSE store
          /\ hist' = IF ok
                     THEN [Written(hist, r.shortKey) EXCEPT
                             !.last = <<>>, !.pinned = @ \cup {r.shortKey}]
                     ELSE [hist EXCEPT !.last = <<>>]
          /\ req' = [req EXCEPT ![p] =
               [Sent(r, ok) EXCEPT !.pc = "idle", !.code = 1, !.ret = r.shortKey]]
    /\ UNCHANGED <<now, redisClient, open>>

----------------------------------------------------------------------------
(* longToShort (main.go:227-268).                                          *)

\* main.go:228: redisClient = redisPool.Get()
L2sPool(p) ==
    /\ req[p].pc = "l2s_pool"
    /\ redisClient' = Conn(p, "outer")
    /\ open' = open \cup {Conn(p, "outer")}
    /\ req' = [req EXCEPT ![p].pc = "l2s_defer"]
    /\ UNCHANGED <<now, store, hist>>

\* main.go:229: defer redisClient.Close() binds the connection the
\* package-level variable holds now.
L2sDefer(p) ==
    /\ req[p].pc = "l2s_defer"
    /\ req' = [req EXCEPT ![p].d1 = redisClient, ![p].pc = "l2s_getmd5"]
    /\ UNCHANGED <<now, store, redisClient, open, hist>>

\* main.go:232-238: the lookup of the DedupIndexRecord.
L2sGetMd5(p, ok) ==
    /\ req[p].pc = "l2s_getmd5"
    /\ LET r == req[p]
           good == Good(ok, redisClient)
           existsKey == IF good THEN Get(store, Md5Key(r.longUrl)) ELSE ""
       IN req' = [req EXCEPT ![p] =
            [Sent(r, good) EXCEPT !.existsKey = existsKey,
                                  !.pc = IF existsKey # "" THEN "l2s_hit" ELSE "l2s_gen"]]
    /\ UNCHANGED <<now, store, redisClient, open, hist>>

\* L2sHit with a second EXPIRE that gives the DedupIndexRecord a full day
\* again.  C10 tells the two apart.
L2sHit_Refresh(p, ok) ==
    /\ req[p].pc = "l2s_hit"
    /\ LET r == req[p]
           good == Good(ok, redisClient)
       IN /\ store' = IF good
                      THEN Expire(Expire(store, r.existsKey, r.ttl, now),
                                  Md5Key(r.longUrl), secondsPerDay, now)
                      ELSE store
          /\ hist' = IF good THEN Born(hist, store, r.existsKey, r.ttl) ELSE hist
          /\ req' = [req EXCEPT ![p] =
               [Sent(r, good) EXCEPT !.shortKey = r.existsKey, !.pc = "l2s_ret"]]
    /\ UNCHANGED <<now, redisClient, open>>

\* main.go:240-243: the hit: EXPIRE _existsKey ttl, return _existsKey.
L2sHit(p, ok) ==
    /\ req[p].pc = "l2s_hit"
    /\ LET r == req[p]
           good == Good(ok, redisClient)
       IN /\ store' = IF good THEN Expire(store, r.existsKey, r.ttl, now) ELSE store
          /\ hist' = IF good THEN Born(hist, store, r.existsKey, r.ttl) ELSE hist
          /\ req' = [req EXCEPT ![p] =
               [Sent(r, good) EXCEPT !.shortKey = r.existsKey, !.pc = "l2s_ret"]]
    /\ UNCHANGED <<now, redisClient, open>>

\* L2sGen with a loop of four rounds.  C14 tells the two apart.
L2sGen_FourRounds(p, ok, k) ==
    /\ req[p].pc = "l2s_gen"
    /\ LET r == req[p]
           good == Good(ok, redisClient)
           existsLongUrl == IF good THEN Get(store, k) ELSE ""
           leave == existsLongUrl = "" \/ ~(r.i + 1 < 4)
       IN req' = [req EXCEPT ![p] =
            [Sent(r, good) EXCEPT !.shortKey = k,
                                  !.i = IF existsLongUrl = "" THEN r.i ELSE r.i + 1,
                                  !.pc = IF ~leave THEN "l2s_gen"
                                         ELSE IF k # "" THEN "l2s_mset"
                                         ELSE "l2s_ret"]]
    /\ UNCHANGED <<now, store, redisClient, open, hist>>

\* main.go:248-257: one round of the retry loop: a candidate, its lookup,
\* and the exit of the loop (a free candidate, or the third round).
L2sGen(p, ok, k) ==
    /\ req[p].pc = "l2s_gen"
    /\ LET r == req[p]
           good == Good(ok, redisClient)
           existsLongUrl == IF good THEN Get(store, k) ELSE ""
           leave == existsLongUrl = "" \/ ~(r.i + 1 < 3)
       IN req' = [req EXCEPT ![p] =
            [Sent(r, good) EXCEPT !.shortKey = k,
                                  !.i = IF existsLongUrl = "" THEN r.i ELSE r.i + 1,
                                  !.pc = IF ~leave THEN "l2s_gen"
                                         ELSE IF k # "" THEN "l2s_mset"
                                         ELSE "l2s_ret"]]
    /\ UNCHANGED <<now, store, redisClient, open, hist>>

\* L2sMset writing the ShortLinkRecord alone, without the DedupIndexRecord.
\* C9 tells the two apart.
L2sMset_KeyOnly(p, ok) ==
    /\ req[p].pc = "l2s_mset"
    /\ LET r == req[p]
           good == Good(ok, redisClient)
       IN /\ store' = IF good THEN Set(store, r.shortKey, r.longUrl) ELSE store
          /\ hist' = IF good THEN Written(hist, r.shortKey) ELSE hist
          /\ req' = [req EXCEPT ![p] = [Sent(r, good) EXCEPT !.pc = "l2s_expkey"]]
    /\ UNCHANGED <<now, redisClient, open>>

\* main.go:259: MSET shortKey longUrl md5key shortKey
L2sMset(p, ok) ==
    /\ req[p].pc = "l2s_mset"
    /\ LET r == req[p]
           good == Good(ok, redisClient)
       IN /\ store' = IF good
                      THEN MSet(store, r.shortKey, r.longUrl, Md5Key(r.longUrl), r.shortKey)
                      ELSE store
          /\ hist' = IF good THEN Written(hist, r.shortKey) ELSE hist
          /\ req' = [req EXCEPT ![p] = [Sent(r, good) EXCEPT !.pc = "l2s_expkey"]]
    /\ UNCHANGED <<now, redisClient, open>>

\* main.go:262: EXPIRE shortKey ttl
L2sExpireKey(p, ok) ==
    /\ req[p].pc = "l2s_expkey"
    /\ LET r == req[p]
           good == Good(ok, redisClient)
       IN /\ store' = IF good THEN Expire(store, r.shortKey, r.ttl, now) ELSE store
          /\ hist' = IF good THEN Born(hist, store, r.shortKey, r.ttl) ELSE hist
          /\ req' = [req EXCEPT ![p] = [Sent(r, good) EXCEPT !.pc = "l2s_expmd5"]]
    /\ UNCHANGED <<now, redisClient, open>>

\* L2sExpireMd5 giving the DedupIndexRecord the TTL of the ShortLinkRecord.
\* C13 tells the two apart.
L2sExpireMd5_Ttl(p, ok) ==
    /\ req[p].pc = "l2s_expmd5"
    /\ LET r == req[p]
           good == Good(ok, redisClient)
       IN /\ store' = IF good
                      THEN Expire(store, Md5Key(r.longUrl), r.ttl, now)
                      ELSE store
          /\ req' = [req EXCEPT ![p] = [Sent(r, good) EXCEPT !.pc = "l2s_ret"]]
    /\ UNCHANGED <<now, redisClient, open, hist>>

\* main.go:264: EXPIRE md5key secondsPerDay
L2sExpireMd5(p, ok) ==
    /\ req[p].pc = "l2s_expmd5"
    /\ LET r == req[p]
           good == Good(ok, redisClient)
       IN /\ store' = IF good
                      THEN Expire(store, Md5Key(r.longUrl), secondsPerDay, now)
                      ELSE store
          /\ req' = [req EXCEPT ![p] = [Sent(r, good) EXCEPT !.pc = "l2s_ret"]]
    /\ UNCHANGED <<now, redisClient, open, hist>>

\* main.go:243/267 with the deferred Close, then main.go:186-193: the answer.
L2sRet(p) ==
    /\ req[p].pc = "l2s_ret"
    /\ open' = open \ {req[p].d1}
    /\ hist' = [hist EXCEPT !.issued = Put(hist.issued, req[p].longUrl, req[p].shortKey),
                            !.last = <<req[p].longUrl, req[p].shortKey, now>>]
    /\ req' = [req EXCEPT ![p] = Answer(req[p], 1, req[p].shortKey)]
    /\ UNCHANGED <<now, store, redisClient>>

----------------------------------------------------------------------------
(* GET /:shortKey (main.go:197-206), shortToLong (main.go:212-224) and     *)
(* renew (main.go:271-288).                                                *)

GetShort(p, shortKey) ==
    /\ req[p].pc = "idle"
    /\ hist' = [hist EXCEPT !.served = @ + 1]
    /\ req' = [req EXCEPT ![p] =
         [Blank EXCEPT !.op = "get", !.shortKey = shortKey, !.pc = "s2l_pool"]]
    /\ UNCHANGED <<now, store, redisClient, open>>

\* main.go:213: redisClient = redisPool.Get()
S2lPool(p) ==
    /\ req[p].pc = "s2l_pool"
    /\ redisClient' = Conn(p, "outer")
    /\ open' = open \cup {Conn(p, "outer")}
    /\ req' = [req EXCEPT ![p].pc = "s2l_defer"]
    /\ UNCHANGED <<now, store, hist>>

\* main.go:214: defer redisClient.Close()
S2lDefer(p) ==
    /\ req[p].pc = "s2l_defer"
    /\ req' = [req EXCEPT ![p].d1 = redisClient, ![p].pc = "s2l_get"]
    /\ UNCHANGED <<now, store, redisClient, open, hist>>

\* S2lGet calling renew whatever the GET answered.  C7 tells the two apart.
S2lGet_AlwaysRenew(p, ok) ==
    /\ req[p].pc = "s2l_get"
    /\ LET r == req[p]
           good == Good(ok, redisClient)
           longUrl == IF good THEN Get(store, r.shortKey) ELSE ""
       IN req' = [req EXCEPT ![p] =
            [Sent(r, good) EXCEPT !.longUrl = longUrl, !.pc = "rn_pool"]]
    /\ UNCHANGED <<now, store, redisClient, open, hist>>

\* main.go:216-221: GET shortKey; a non-empty answer calls renew.
S2lGet(p, ok) ==
    /\ req[p].pc = "s2l_get"
    /\ LET r == req[p]
           good == Good(ok, redisClient)
           longUrl == IF good THEN Get(store, r.shortKey) ELSE ""
       IN req' = [req EXCEPT ![p] =
            [Sent(r, good) EXCEPT !.longUrl = longUrl,
                                  !.pc = IF longUrl # "" THEN "rn_pool" ELSE "s2l_ret"]]
    /\ UNCHANGED <<now, store, redisClient, open, hist>>

\* main.go:272: redisClient = redisPool.Get()
RnPool(p) ==
    /\ req[p].pc = "rn_pool"
    /\ redisClient' = Conn(p, "renew")
    /\ open' = open \cup {Conn(p, "renew")}
    /\ req' = [req EXCEPT ![p].pc = "rn_defer"]
    /\ UNCHANGED <<now, store, hist>>

\* main.go:273: defer redisClient.Close()
RnDefer(p) ==
    /\ req[p].pc = "rn_defer"
    /\ req' = [req EXCEPT ![p].d2 = redisClient, ![p].pc = "rn_setnx"]
    /\ UNCHANGED <<now, store, redisClient, open, hist>>

\* RnSetnx with SET in the place of SETNX: the lock is always taken.
\* C5 tells the two apart.
RnSetnx_Set(p, ok) ==
    /\ req[p].pc = "rn_setnx"
    /\ LET r == req[p]
           good == Good(ok, redisClient)
           lockKey == LockKey(r.shortKey)
           lock == IF good THEN 1 ELSE 0
       IN /\ store' = IF lock = 1 THEN Set(store, lockKey, "1") ELSE store
          /\ hist' = IF lock = 1 /\ lockKey \notin DOMAIN hist.renewals
                     THEN [hist EXCEPT !.renewals = Put(hist.renewals, lockKey, 0)]
                     ELSE hist
          /\ req' = [req EXCEPT ![p] =
               [Sent(r, good) EXCEPT !.lock = lock,
                                     !.pc = IF lock = 1 THEN "rn_explock" ELSE "rn_ret"]]
    /\ UNCHANGED <<now, redisClient, open>>

\* main.go:276-278: SETNX lockKey 1
RnSetnx(p, ok) ==
    /\ req[p].pc = "rn_setnx"
    /\ LET r == req[p]
           good == Good(ok, redisClient)
           lockKey == LockKey(r.shortKey)
           lock == IF good /\ ~Exists(store, lockKey) THEN 1 ELSE 0
       IN /\ store' = IF lock = 1 THEN Set(store, lockKey, "1") ELSE store
          /\ hist' = IF lock = 1 /\ lockKey \notin DOMAIN hist.renewals
                     THEN [hist EXCEPT !.renewals = Put(hist.renewals, lockKey, 0)]
                     ELSE hist
          /\ req' = [req EXCEPT ![p] =
               [Sent(r, good) EXCEPT !.lock = lock,
                                     !.pc = IF lock = 1 THEN "rn_explock" ELSE "rn_ret"]]
    /\ UNCHANGED <<now, redisClient, open>>

\* main.go:280: EXPIRE lockKey defaultRenewalDay*secondsPerDay
RnExpireLock(p, ok) ==
    /\ req[p].pc = "rn_explock"
    /\ LET r == req[p]
           good == Good(ok, redisClient)
       IN /\ store' = IF good
                      THEN Expire(store, LockKey(r.shortKey),
                                  defaultRenewalDay * secondsPerDay, now)
                      ELSE store
          /\ req' = [req EXCEPT ![p] = [Sent(r, good) EXCEPT !.pc = "rn_ttl"]]
    /\ UNCHANGED <<now, redisClient, open, hist>>

\* RnTtl without the comparison with -1.  C16 tells the two apart.
RnTtl_NoSkip(p, ok) ==
    /\ req[p].pc = "rn_ttl"
    /\ LET r == req[p]
           good == Good(ok, redisClient)
           ttl == IF good THEN Ttl(store, r.shortKey, now) ELSE 0
       IN req' = [req EXCEPT ![p] =
            [Sent(r, good) EXCEPT !.rttl = ttl,
                                  !.pc = IF good THEN "rn_expire" ELSE "rn_ret"]]
    /\ UNCHANGED <<now, store, redisClient, open, hist>>

\* main.go:283-284: TTL shortKey; an error or -1 skips the renewal.
RnTtl(p, ok) ==
    /\ req[p].pc = "rn_ttl"
    /\ LET r == req[p]
           good == Good(ok, redisClient)
           ttl == IF good THEN Ttl(store, r.shortKey, now) ELSE 0
       IN req' = [req EXCEPT ![p] =
            [Sent(r, good) EXCEPT !.rttl = ttl,
                                  !.pc = IF good /\ ttl # 0 - 1 THEN "rn_expire"
                                         ELSE "rn_ret"]]
    /\ UNCHANGED <<now, store, redisClient, open, hist>>

\* The history after renew's EXPIRE reached the ShortLinkRecord k.
Renewed(h, s, k) ==
    LET lockKey == LockKey(k)
        up(f, x) == IF x \in DOMAIN f THEN [f EXCEPT ![x] = @ + 1] ELSE f
    IN IF ~Exists(s, k) THEN h
       ELSE [h EXCEPT !.renewals = up(h.renewals, lockKey),
                      !.born = IF k \in DOMAIN h.born
                               THEN [h.born EXCEPT ![k].renews = @ + 1]
                               ELSE h.born]

\* RnExpire adding two renewal windows to the TTL it read.  C6 tells the
\* two apart.
RnExpire_TwoWindows(p, ok) ==
    /\ req[p].pc = "rn_expire"
    /\ LET r == req[p]
           good == Good(ok, redisClient)
           sec == r.rttl + 2 * defaultRenewalDay * secondsPerDay
       IN /\ store' = IF good THEN Expire(store, r.shortKey, sec, now) ELSE store
          /\ hist' = IF good THEN Renewed(hist, store, r.shortKey) ELSE hist
          /\ req' = [req EXCEPT ![p] = [Sent(r, good) EXCEPT !.pc = "rn_ret"]]
    /\ UNCHANGED <<now, redisClient, open>>

\* main.go:285: EXPIRE shortKey ttl+defaultRenewalDay*secondsPerDay
RnExpire(p, ok) ==
    /\ req[p].pc = "rn_expire"
    /\ LET r == req[p]
           good == Good(ok, redisClient)
           sec == r.rttl + defaultRenewalDay * secondsPerDay
       IN /\ store' = IF good THEN Expire(store, r.shortKey, sec, now) ELSE store
          /\ hist' = IF good THEN Renewed(hist, store, r.shortKey) ELSE hist
          /\ req' = [req EXCEPT ![p] = [Sent(r, good) EXCEPT !.pc = "rn_ret"]]
    /\ UNCHANGED <<now, redisClient, open>>

\* main.go:288: renew returns; its deferred Close runs.
RnRet(p) ==
    /\ req[p].pc = "rn_ret"
    /\ open' = open \ {req[p].d2}
    /\ req' = [req EXCEPT ![p].pc = "s2l_ret"]
    /\ UNCHANGED <<now, store, redisClient, hist>>

\* main.go:223 with the deferred Close, then main.go:201-205: the answer.
S2lRet(p) ==
    /\ req[p].pc = "s2l_ret"
    /\ open' = open \ {req[p].d1}
    /\ req' = [req EXCEPT ![p] =
         Answer(req[p], IF req[p].longUrl = "" THEN 404 ELSE 301, req[p].longUrl)]
    /\ hist' = [hist EXCEPT !.last = <<>>]
    /\ UNCHANGED <<now, store, redisClient>>

----------------------------------------------------------------------------
(* Time.  Redis drops a key once the clock reaches its expiration.  A      *)
(* second may pass between any two commands; a request is over long before *)
(* a day is (every command has a 30 s timeout, main.go:415-417), so the    *)
(* long step is taken between requests.  The long step is one second short *)
(* of a day, so that both sides of every expiration are visited.           *)

DayStep == secondsPerDay - 1

Elapse(d) ==
    /\ now' = now + d
    /\ store' = Purge(store, now')
    /\ hist' = [hist EXCEPT
         !.renewals = [k \in DOMAIN hist.renewals \cap DOMAIN store' |-> hist.renewals[k]],
         !.born = [k \in DOMAIN hist.born \cap DOMAIN store' |-> hist.born[k]]]
    /\ UNCHANGED <<req, redisClient, open>>

Tick(maxSecs) ==
    /\ now % DayStep < maxSecs
    /\ Elapse(1)

DayPass(procs, maxDays) ==
    /\ now \div DayStep < maxDays
    /\ \A p \in procs : req[p].pc = "idle"
    /\ Elapse(DayStep)

----------------------------------------------------------------------------
(* The next-state relation, over the goroutines, the inputs and the store  *)
(* answers (oks) a specification admits.                                   *)

\* A request arrives: gin starts a goroutine for it.  The goroutines are
\* interchangeable, so the first idle one takes it.
Free(p, procs, maxReqs) ==
    /\ hist.served < maxReqs
    /\ \A q \in procs : q < p => req[q].pc # "idle"

Next(procs, forms, xkeys, letters, gkeys, lens, days, oks, maxDays, maxSecs, maxReqs) ==
    \/ \E p \in procs, f \in forms, k \in xkeys \cup {""}, n \in lens, d \in days :
          Free(p, procs, maxReqs) /\ PostShort(p, f, k, n, d)
    \/ \E p \in procs, ok \in oks : PostGet(p, ok)
    \/ \E p \in procs, ok \in oks : PostSet(p, ok)
    \/ \E p \in procs : L2sPool(p)
    \/ \E p \in procs : L2sDefer(p)
    \/ \E p \in procs, ok \in oks : L2sGetMd5(p, ok)
    \/ \E p \in procs, ok \in oks : L2sHit(p, ok)
    \/ \E p \in procs, ok \in oks :
          \E k \in generate(req[p].shortUrlLen, letters) : L2sGen(p, ok, k)
    \/ \E p \in procs, ok \in oks : L2sMset(p, ok)
    \/ \E p \in procs, ok \in oks : L2sExpireKey(p, ok)
    \/ \E p \in procs, ok \in oks : L2sExpireMd5(p, ok)
    \/ \E p \in procs : L2sRet(p)
    \/ \E p \in procs, k \in gkeys : Free(p, procs, maxReqs) /\ GetShort(p, k)
    \/ \E p \in procs : S2lPool(p)
    \/ \E p \in procs : S2lDefer(p)
    \/ \E p \in procs, ok \in oks : S2lGet(p, ok)
    \/ \E p \in procs : RnPool(p)
    \/ \E p \in procs : RnDefer(p)
    \/ \E p \in procs, ok \in oks : RnSetnx(p, ok)
    \/ \E p \in procs, ok \in oks : RnExpireLock(p, ok)
    \/ \E p \in procs, ok \in oks : RnTtl(p, ok)
    \/ \E p \in procs, ok \in oks : RnExpire(p, ok)
    \/ \E p \in procs : RnRet(p)
    \/ \E p \in procs : S2lRet(p)
    \/ Tick(maxSecs)
    \/ DayPass(procs, maxDays)

\* Requests one after another, a store that answers every command.
NextSeq ==
    Next({1}, {"", FormX, FormY}, {"a"}, {"a"}, {"a", "b"}, {0, 1}, {1, 2}, {TRUE},
         MaxDays, MaxSecs, MaxReqs)

Spec == Init /\ [][NextSeq]_vars

\* Two requests at a time, on one short key.
NextRace ==
    Next({1, 2}, {FormX, FormY}, {"a"}, {"a"}, {"a"}, {1}, {1}, {TRUE},
         RaceDays, RaceSecs, RaceReqs)

SpecRace == Init /\ [][NextRace]_vars

\* Two requests at a time, for one long URL, with two candidate keys.
NextTwins ==
    Next({1, 2}, {FormX}, {"a"}, {"a", "b"}, {"a"}, {1}, {1}, {TRUE},
         RaceDays, RaceSecs, RaceReqs)

SpecTwins == Init /\ [][NextTwins]_vars

\* Requests one after another, a store whose commands may fail.
NextFault ==
    Next({1}, {FormX, FormY}, {"a"}, {"a"}, {"a"}, {1}, {1}, {TRUE, FALSE},
         FaultDays, FaultSecs, FaultReqs)

SpecFault == Init /\ [][NextFault]_vars

\* Requests one after another, whose shortKey (form field or path segment)
\* may be any string: the handlers take it as it comes.
NextKeys ==
    Next({1}, {FormX}, {"a", Md5Key(UrlX)}, {"a"}, {"a", Md5Key(UrlX)}, {1}, {1}, {TRUE},
         KeysDays, KeysSecs, KeysReqs)

SpecKeys == Init /\ [][NextKeys]_vars

----------------------------------------------------------------------------
(* Properties.                                                             *)

\* The goroutine p takes the step from position pc.
Leaves(p, pc) == req[p].pc = pc /\ req'[p] # req[p]

\* The values of the keyspace, expirations aside.
Values(s) == [k \in DOMAIN s |-> s[k].val]

\* p is idle and holds the answer of a create that went through longToShort.
Created(p) ==
    /\ req[p].pc = "idle"
    /\ req[p].op = "post"
    /\ ~req[p].explicit
    /\ req[p].code = 1
    /\ req[p].ret # ""

(* C1: a resolve of the key a create (without explicit key) has just       *)
(* returned, with no request and no time in between, answers the long URL  *)
(* of that create.                                                         *)
C1_RoundTrip ==
    [][\A p \in DOMAIN req :
         (/\ Leaves(p, "s2l_get")
          /\ hist.last # <<>>
          /\ hist.last[2] = req[p].shortKey
          /\ hist.last[3] = now)
         => req'[p].longUrl = hist.last[1]]_vars

(* C2: a create that finds the live DedupIndexRecord of its long URL       *)
(* returns the key k the earlier create returned, writes no new record,    *)
(* changes no value, and leaves the ShortLinkRecord k with the TTL of this *)
(* call.                                                                   *)
C2_DedupHit ==
    [][\A p \in DOMAIN req :
         Leaves(p, "l2s_hit")
         => /\ req[p].longUrl \in DOMAIN hist.issued
            /\ req'[p].shortKey = hist.issued[req[p].longUrl]
            /\ Values(store') = Values(store)
            /\ Exists(store', req'[p].shortKey)
            /\ Ttl(store', req'[p].shortKey, now) = req[p].ttl]_vars

(* C3: requests one after another: a create with explicit key k and long   *)
(* URL y, when k maps to a different long URL, is refused with KeyConflict *)
(* and changes nothing; when k maps to the same long URL (or to none) it   *)
(* succeeds, and k maps to that long URL afterwards.                       *)
C3_ExplicitKey ==
    /\ [][\A p \in DOMAIN req :
            Leaves(p, "post_get")
            => IF Get(store, req[p].shortKey) \notin {"", req[p].longUrl}
               THEN /\ req'[p].pc = "idle"
                    /\ req'[p].code = 0
                    /\ req'[p].msg = "KeyConflict"
                    /\ req'[p].ret = ""
                    /\ store' = store
               ELSE /\ req'[p].pc = "post_set"
                    /\ store' = store]_vars
    /\ [][\A p \in DOMAIN req :
            Leaves(p, "post_set")
            => /\ req'[p].pc = "idle"
               /\ req'[p].code = 1
               /\ req'[p].ret = req[p].shortKey
               /\ Get(store', req[p].shortKey) = req[p].longUrl
               /\ \A k \in DOMAIN store \ {req[p].shortKey} :
                     Exists(store', k) /\ store'[k] = store[k]]_vars

C3_Witness ==
    \E p \in DOMAIN req :
        /\ req[p].pc = "idle"
        /\ req[p].explicit
        /\ req[p].msg = "KeyConflict"
        /\ Get(store, req[p].shortKey) \notin {"", req[p].longUrl}

(* C4: requests at the same time: the SET of a create with an explicit key *)
(* never replaces a live record that maps the key to a different long URL. *)
C4_NoOverwrite ==
    [][\A p \in DOMAIN req :
         Leaves(p, "post_set")
         => Get(store, req[p].shortKey) \in {"", req[p].longUrl}]_vars

(* C5: in every interleaving of resolves, the TTL of a ShortLinkRecord is  *)
(* extended at most once while one RenewalLock of its key exists, and a    *)
(* resolve that finds the lock present changes nothing.                    *)
C5_RenewOnce ==
    /\ [](\A lockKey \in DOMAIN hist.renewals : hist.renewals[lockKey] <= 1)
    /\ [][\A p \in DOMAIN req :
            (/\ req[p].op = "get"
             /\ req[p].pc # "idle"
             /\ req'[p] # req[p]
             /\ req'[p].lock = 0)
            => store' = store]_vars

C5_Witness ==
    \E p, q \in DOMAIN req :
        /\ req[p].op = "get" /\ req[q].op = "get"
        /\ req[p].shortKey = req[q].shortKey
        /\ req[p].pc = "rn_ret" /\ req[p].lock = 1
        /\ req[q].pc = "rn_ret" /\ req[q].lock = 0
        /\ LockKey(req[p].shortKey) \in DOMAIN hist.renewals
        /\ hist.renewals[LockKey(req[p].shortKey)] = 1

(* C6: requests one after another: a ShortLinkRecord whose TTL a create   *)
(* set to ttl, and that was renewed at most once since (one renewal        *)
(* window), has at most ttl + 86400 seconds left; and every renewal sets   *)
(* the TTL to the remaining TTL it read plus 86400.                        *)
C6_RenewalBound ==
    /\ [](\A k \in DOMAIN hist.born :
            (Exists(store, k) /\ hist.born[k].renews <= 1)
            => Ttl(store, k, now) <= hist.born[k].ttl + secondsPerDay)
    /\ [][\A p \in DOMAIN req :
            (Leaves(p, "rn_expire") /\ Exists(store, req[p].shortKey))
            => Ttl(store', req[p].shortKey, now) = req[p].rttl + secondsPerDay]_vars

C6_Witness ==
    \E k \in DOMAIN hist.born :
        /\ hist.born[k].renews = 1
        /\ Exists(store, k)
        /\ Ttl(store, k, now) = hist.born[k].ttl + secondsPerDay

(* C7: requests one after another: a resolve of a key that has no          *)
(* ShortLinkRecord, never created or expired alike, answers NotFound,      *)
(* never enters renew, and changes nothing in the store.                   *)
C7_NotFound ==
    /\ [][\A p \in DOMAIN req :
            (Leaves(p, "s2l_get") /\ ~Exists(store, req[p].shortKey))
            => /\ req'[p].longUrl = ""
               /\ req'[p].pc = "s2l_ret"]_vars
    /\ [][\A p \in DOMAIN req :
            (/\ req[p].op = "get"
             /\ req[p].pc # "idle"
             /\ req'[p] # req[p]
             /\ req'[p].longUrl = "")
            => /\ store' = store
               /\ req'[p].pc \in {"s2l_defer", "s2l_get", "s2l_ret", "idle"}
               /\ req'[p].pc = "idle" => (req'[p].code = 404 /\ req'[p].ret = "")]_vars

C7_Witness ==
    \E p \in DOMAIN req :
        /\ req[p].pc = "idle"
        /\ req[p].op = "get"
        /\ req[p].code = 404
        /\ req[p].shortKey \in hist.ever
        /\ ~Exists(store, req[p].shortKey)
        /\ ~Exists(store, LockKey(req[p].shortKey))

(* C8: a create stops at the first store command that fails: it issues no  *)
(* further command and answers an error without a short key.               *)
C8_FailureAborts ==
    \A p \in DOMAIN req :
        (req[p].op = "post" /\ req[p].err)
        => /\ req[p].sent = 0
           /\ req[p].pc = "idle" => (req[p].code = 0 /\ req[p].ret = "")

(* C9: two creates of the same long URL u that both missed the dedup       *)
(* index, had every command answered and returned different keys leave,    *)
(* within the day, both keys mapping to u and the DedupIndexRecord of u    *)
(* naming one of the two.                                                  *)
C9_Twins ==
    \A p, q \in DOMAIN req :
        (/\ Created(p) /\ Created(q)
         /\ req[p].existsKey = "" /\ req[q].existsKey = ""
         /\ ~req[p].err /\ ~req[q].err
         /\ req[p].longUrl = req[q].longUrl
         /\ req[p].ret # req[q].ret
         /\ now < secondsPerDay)
        => /\ Get(store, req[p].ret) = req[p].longUrl
           /\ Get(store, req[q].ret) = req[p].longUrl
           /\ Get(store, Md5Key(req[p].longUrl)) \in {req[p].ret, req[q].ret}

C9_Witness ==
    \E p, q \in DOMAIN req :
        /\ Created(p) /\ Created(q)
        /\ req[p].existsKey = "" /\ req[q].existsKey = ""
        /\ ~req[p].err /\ ~req[q].err
        /\ req[p].longUrl = req[q].longUrl
        /\ req[p].ret # req[q].ret
        /\ Get(store, req[p].ret) = req[p].longUrl
        /\ Get(store, req[q].ret) = req[p].longUrl
        /\ Get(store, Md5Key(req[p].longUrl)) = req[q].ret

(* C10, as stated: a create that finds the live DedupIndexRecord of its    *)
(* long URL leaves that record with its value and a TTL of one full day.   *)
C10_IndexRefreshed ==
    [][\A p \in DOMAIN req :
         (Leaves(p, "l2s_hit") /\ Exists(store, Md5Key(req[p].longUrl)))
         => /\ Get(store', Md5Key(req[p].longUrl)) = Get(store, Md5Key(req[p].longUrl))
            /\ Ttl(store', Md5Key(req[p].longUrl), now) = secondsPerDay]_vars

(* C10, amended: a create that finds the live DedupIndexRecord of its long *)
(* URL leaves that record as it is, value and expiration; the TTL it sets  *)
(* is the one of the ShortLinkRecord the index names.                      *)
C10_IndexUntouched ==
    [][\A p \in DOMAIN req :
         (Leaves(p, "l2s_hit") /\ Exists(store, Md5Key(req[p].longUrl)))
         => /\ Exists(store', Md5Key(req[p].longUrl))
            /\ store'[Md5Key(req[p].longUrl)] = store[Md5Key(req[p].longUrl)]
            /\ Exists(store, req[p].existsKey)
               => Ttl(store', req[p].existsKey, now) = req[p].ttl]_vars

C10_Witness ==
    \E p \in DOMAIN req :
        /\ req[p].pc = "l2s_ret"
        /\ req[p].existsKey # ""
        /\ Exists(store, Md5Key(req[p].longUrl))
        /\ Ttl(store, Md5Key(req[p].longUrl), now) < secondsPerDay
        /\ Ttl(store, req[p].existsKey, now) = req[p].ttl

\* The key k starts with the prefix pre.
HasPrefix(k, pre) == Len(k) >= Len(pre) /\ SubSeq(k, 1, Len(pre)) = pre

(* C11: no RenewalLock is left without an expiration: a lock that has none *)
(* belongs to a renew that stands between its SETNX and its EXPIRE.        *)
C11_LockExpires ==
    \A k \in DOMAIN store :
        (HasPrefix(k, defaultLockPrefix) /\ store[k].exp = NoExpire)
        => \E p \in DOMAIN req :
              req[p].pc = "rn_explock" /\ LockKey(req[p].shortKey) = k

\* A string of length 1-20 over letterBytes.
ValidShortKey(k) ==
    /\ Len(k) >= minShortUrlLen
    /\ Len(k) <= maxShortUrlLen
    /\ \A i \in 1..Len(k) :
          \E j \in 1..Len(letterBytes) : SubSeq(k, i, i) = SubSeq(letterBytes, j, j)

\* The DedupIndexRecords and RenewalLocks of the keyspace s.
Reserved(s) ==
    LET keys == {k \in DOMAIN s : \/ HasPrefix(k, defaultMd5Prefix)
                                  \/ HasPrefix(k, defaultLockPrefix)}
    IN [k \in keys |-> s[k]]

(* C12: the key an explicit create writes and the key a resolve reads are  *)
(* strings of length 1-20 over the 62 letters, and the SET of an explicit  *)
(* create leaves every DedupIndexRecord and RenewalLock as it was.         *)
C12_KeySpaces ==
    [][\A p \in DOMAIN req :
         /\ Leaves(p, "post_set")
            => /\ ValidShortKey(req[p].shortKey)
               /\ Reserved(store') = Reserved(store)
         /\ Leaves(p, "s2l_get") => ValidShortKey(req[p].shortKey)]_vars

(* C13: requests one after another: a create that missed the dedup index *)
(* writes k -> u and fingerprint(u) -> k, gives k the TTL ttl and the      *)
(* index the TTL of one day whatever ttl is, and changes the value of no   *)
(* record that was there unless all three candidates collided.             *)
C13_PostState ==
    /\ [][\A p \in DOMAIN req :
            Leaves(p, "l2s_mset")
            => /\ Get(store', req[p].shortKey) = req[p].longUrl
               /\ Get(store', Md5Key(req[p].longUrl)) = req[p].shortKey
               /\ \A x \in DOMAIN store \ {req[p].shortKey, Md5Key(req[p].longUrl)} :
                     Exists(store', x) /\ store'[x] = store[x]
               /\ req[p].i < 3
                  => \A x \in DOMAIN store : store'[x].val = store[x].val]_vars
    /\ [][\A p \in DOMAIN req :
            Leaves(p, "l2s_expkey")
            => /\ Ttl(store', req[p].shortKey, now) = req[p].ttl
               /\ Values(store') = Values(store)]_vars
    /\ [][\A p \in DOMAIN req :
            Leaves(p, "l2s_expmd5")
            => /\ Ttl(store', Md5Key(req[p].longUrl), now) = secondsPerDay
               /\ Values(store') = Values(store)]_vars
    /\ [](\A p \in DOMAIN req :
            (req[p].pc = "l2s_ret" /\ req[p].existsKey = "")
            => /\ Get(store, req[p].shortKey) = req[p].longUrl
               /\ Get(store, Md5Key(req[p].longUrl)) = req[p].shortKey
               /\ Ttl(store, req[p].shortKey, now) > 0
               /\ Ttl(store, req[p].shortKey, now) <= req[p].ttl
               /\ Ttl(store, Md5Key(req[p].longUrl), now) > 0
               /\ Ttl(store, Md5Key(req[p].longUrl), now) <= secondsPerDay
               /\ Ttl(store, req[p].shortKey, now) - Ttl(store, Md5Key(req[p].longUrl), now)
                     <= req[p].ttl - secondsPerDay)

C13_Witness ==
    \E p \in DOMAIN req :
        /\ req[p].pc = "l2s_ret"
        /\ req[p].existsKey = ""
        /\ req[p].ttl = 2 * secondsPerDay
        /\ Ttl(store, req[p].shortKey, now) = req[p].ttl
        /\ Ttl(store, Md5Key(req[p].longUrl), now) = secondsPerDay

(* C14: requests one after another: the retry loop draws at most three     *)
(* candidates, leaves with the first one whose lookup is empty, leaves     *)
(* with the third one when all three are taken and overwrites its record;  *)
(* the create then answers a key, never an error.                          *)
C14_BoundedRetry ==
    /\ [](\A p \in DOMAIN req :
            req[p].i <= 3 /\ (req[p].pc = "l2s_gen" => req[p].i < 3))
    /\ [][\A p \in DOMAIN req :
            Leaves(p, "l2s_gen")
            => IF Get(store, req'[p].shortKey) = ""
               THEN req'[p].pc = "l2s_mset" /\ req'[p].i = req[p].i
               ELSE /\ req'[p].i = req[p].i + 1
                    /\ req'[p].pc = IF req'[p].i < 3 THEN "l2s_gen" ELSE "l2s_mset"]_vars
    /\ [][\A p \in DOMAIN req :
            Leaves(p, "l2s_mset")
            => /\ Get(store', req[p].shortKey) = req[p].longUrl
               /\ req'[p].shortKey = req[p].shortKey]_vars
    /\ [][\A p \in DOMAIN req :
            Leaves(p, "l2s_ret")
            => /\ req'[p].pc = "idle"
               /\ req'[p].code = 1
               /\ req'[p].ret = req[p].shortKey
               /\ req'[p].ret # ""]_vars

C14_Witness ==
    \E p \in DOMAIN req :
        /\ req[p].pc = "l2s_expkey"
        /\ req[p].i = 3
        /\ Get(store, req[p].shortKey) = req[p].longUrl
        /\ \E u \in {UrlX, UrlY} \ {req[p].longUrl} :
              Get(store, Md5Key(u)) = req[p].shortKey

(* C15: a successful create with an explicit key k writes the             *)
(* ShortLinkRecord k alone, without expiration, and changes no other       *)
(* record; the record it wrote stays without expiration and is not what    *)
(* the DedupIndexRecord of its long URL names.                             *)
C15_ExplicitFrame ==
    /\ [][\A p \in DOMAIN req :
            Leaves(p, "post_set")
            => /\ Exists(store', req[p].shortKey)
               /\ store'[req[p].shortKey] = [val |-> req[p].longUrl, exp |-> NoExpire]
               /\ \A x \in DOMAIN store' \ {req[p].shortKey} :
                     Exists(store, x) /\ store'[x] = store[x]
               /\ \A x \in DOMAIN store : Exists(store', x)]_vars
    /\ [](\A k \in hist.pinned :
            /\ Exists(store, k)
            /\ store[k].exp = NoExpire
            /\ Get(store, Md5Key(store[k].val)) # k)

(* C16: requests one after another: a renew that took the lock and reads  *)
(* TTL -1 issues no EXPIRE on the key, and no step of a resolve changes a  *)
(* ShortLinkRecord that has no expiration.                                 *)
C16_SkipNoExpire ==
    /\ [][\A p \in DOMAIN req :
            (Leaves(p, "rn_ttl") /\ Ttl(store, req[p].shortKey, now) = NoExpire)
            => /\ req'[p].pc = "rn_ret"
               /\ req'[p].rttl = NoExpire
               /\ store' = store]_vars
    /\ [][\A p \in DOMAIN req :
            (req[p].op = "get" /\ req[p].pc # "idle" /\ req'[p] # req[p])
            => \A x \in DOMAIN store :
                  (~HasPrefix(x, defaultLockPrefix) /\ store[x].exp = NoExpire)
                  => Exists(store', x) /\ store'[x] = store[x]]_vars

C16_Witness ==
    \E p \in DOMAIN req :
        /\ req[p].pc = "rn_ret"
        /\ req[p].lock = 1
        /\ req[p].rttl = NoExpire
        /\ Exists(store, req[p].shortKey)
        /\ store[req[p].shortKey].exp = NoExpire
        /\ Exists(store, LockKey(req[p].shortKey))

(* C17: in every state, a live DedupIndexRecord of a long URL u that      *)
(* names a live ShortLinkRecord k names one that maps to u.                *)
C17_IndexConsistent ==
    \A u \in {UrlX, UrlY} :
        LET k == Get(store, Md5Key(u))
        IN (k # "" /\ Exists(store, k)) => store[k].val = u

(* C18: requests at the same time: the MSET of a create whose candidate    *)
(* passed the empty lookup (fewer than three collisions) never replaces a  *)
(* live ShortLinkRecord that maps the candidate to another long URL.       *)
C18_NoForeignOverwrite ==
    [][\A p \in DOMAIN req :
         (/\ Leaves(p, "l2s_mset")
          /\ req[p].i < 3
          /\ store' # store)
         => Get(store, req[p].shortKey) \in {"", req[p].longUrl}]_vars

(* C19: every connection taken from the pool is given back when the       *)
(* operation that took it ends: an open connection belongs to a request    *)
(* that is still running.                                                  *)
C19_Released ==
    \A c \in open : c[1] \in DOMAIN req /\ req[c[1]].pc # "idle"

(* C20: requests at the same time: every command of longToShort,           *)
(* shortToLong and renew goes out on the connection that execution took    *)
(* from the pool, and that connection is open.                             *)
C20_Isolation ==
    [][\A p \in DOMAIN req :
         /\ (\E pc \in {"l2s_getmd5", "l2s_hit", "l2s_gen", "l2s_mset",
                        "l2s_expkey", "l2s_expmd5", "s2l_get"} : Leaves(p, pc))
            => (redisClient = Conn(p, "outer") /\ redisClient \in open)
         /\ (\E pc \in {"rn_setnx", "rn_explock", "rn_ttl", "rn_expire"} : Leaves(p, pc))
            => (redisClient = Conn(p, "renew") /\ redisClient \in open)]_vars

====
